---------------------------- MODULE Spec2Model ----------------------------
(***************************************************************************)
(* Model of streamlit_app.py of operation_cortex: the leaderboard          *)
(* (save_to_leaderboard, the durable AGENT_LEADERBOARD table and the reads *)
(* that prefer it), the score computed inside save_to_leaderboard, and the *)
(* server-sent-events decoder process_sse_response.                        *)
(***************************************************************************)
EXTENDS Integers, Sequences, FiniteSets, TLC

(***************************************************************************)
(* Sequence helpers.                                                       *)
(***************************************************************************)
Front(s) == SubSeq(s, 1, Len(s) - 1)

Take(s, n) == SubSeq(s, 1, IF n < Len(s) THEN n ELSE Len(s))

Range(s) == {s[i] : i \in DOMAIN s}

Min2(a, b) == IF a < b THEN a ELSE b

Max2(a, b) == IF a > b THEN a ELSE b

(***************************************************************************)
(* Python floats are IEEE-754 binary64.  A float is [m, e] with value      *)
(* m * 2^e, where m is the 53-bit significand held as a big natural (a     *)
(* sequence of 15-bit limbs, least significant first; <<>> is 0).  Every   *)
(* operation rounds to nearest, ties to even, as the hardware does.  Only  *)
(* the non-negative finite values the score needs are modelled.            *)
(***************************************************************************)
Mantissa == 53

LimbBits == 15

RECURSIVE Pow2(_)
Pow2(n) == IF n <= 0 THEN 1 ELSE 2 * Pow2(n - 1)

Base == Pow2(LimbBits)

MaxOf(S) == CHOOSE v \in S : \A w \in S : w <= v

\* drop the most significant zero limbs
Trim(n) ==
    LET nz == {i \in DOMAIN n : n[i] # 0}
    IN  IF nz = {} THEN <<>> ELSE SubSeq(n, 1, MaxOf(nz))

\* number of bits of a trimmed big natural
BitLen(n) ==
    IF n = <<>> THEN 0
    ELSE LimbBits * (Len(n) - 1)
         + (CHOOSE k \in 1..LimbBits : Pow2(k - 1) <= n[Len(n)] /\ n[Len(n)] < Pow2(k))

\* bit i of n, bit 0 the least significant
Bit(n, i) ==
    IF (i \div LimbBits) + 1 > Len(n) THEN 0
    ELSE (n[(i \div LimbBits) + 1] \div Pow2(i % LimbBits)) % 2

\* floor(n / 2^d)
ShiftRight(n, d) ==
    LET s == d % LimbBits
    IN  Trim([j \in 1..Len(n) |->
              LET a  == (d \div LimbBits) + j
                  lo == IF a <= Len(n) THEN n[a] \div Pow2(s) ELSE 0
                  hi == IF a + 1 <= Len(n) THEN (n[a + 1] % Pow2(s)) * Pow2(LimbBits - s) ELSE 0
              IN  lo + hi])

\* n * 2^d
ShiftLeft(n, d) ==
    LET s == d % LimbBits
    IN  Trim([j \in 1..(Len(n) + (d \div LimbBits) + 1) |->
              LET a  == j - (d \div LimbBits)
                  lo == IF a >= 1 /\ a <= Len(n) THEN (n[a] % Pow2(LimbBits - s)) * Pow2(s) ELSE 0
                  hi == IF a - 1 >= 1 /\ a - 1 <= Len(n) THEN n[a - 1] \div Pow2(LimbBits - s) ELSE 0
              IN  lo + hi])

\* a + b + carry
RECURSIVE AddBig(_, _, _)
AddBig(a, b, carry) ==
    IF a = <<>> /\ b = <<>> THEN (IF carry = 0 THEN <<>> ELSE <<carry>>)
    ELSE LET v == (IF a = <<>> THEN 0 ELSE a[1]) + (IF b = <<>> THEN 0 ELSE b[1]) + carry
         IN  <<v % Base>> \o AddBig(IF a = <<>> THEN a ELSE Tail(a),
                                     IF b = <<>> THEN b ELSE Tail(b), v \div Base)

\* n * c + carry, for a natural c below Base
RECURSIVE MulSmall(_, _, _)
MulSmall(n, c, carry) ==
    IF n = <<>> THEN (IF carry = 0 THEN <<>> ELSE <<carry % Base, carry \div Base>>)
    ELSE LET v == n[1] * c + carry
         IN  <<v % Base>> \o MulSmall(Tail(n), c, v \div Base)

\* quotient and remainder of n / d, for a natural d below Base: long
\* division from the most significant limb
RECURSIVE DivSmall(_, _)
DivSmall(n, d) ==
    IF n = <<>> THEN [q |-> <<>>, r |-> 0]
    ELSE LET hi == DivSmall(Tail(n), d)
             v  == hi.r * Base + n[1]
         IN  [q |-> <<v \div d>> \o hi.q, r |-> v % d]

\* the value of a big natural below 2^30
ToNat(n) ==
    (IF Len(n) >= 1 THEN n[1] ELSE 0) + (IF Len(n) >= 2 THEN n[2] * Base ELSE 0)

FromNat(v) == Trim(<<v % Base, v \div Base>>)

FZero == [m |-> <<>>, e |-> 0]

\* round the value n * 2^e (plus, when sticky, a non-zero part below the
\* last bit of n) to a float: nearest, ties to even
RoundFloat(n0, e, sticky) ==
    LET n == Trim(n0)
        L == BitLen(n)
        d == L - Mantissa
    IN  IF n = <<>> THEN FZero
        ELSE IF d <= 0 THEN [m |-> ShiftLeft(n, 0 - d), e |-> e + d]
        ELSE LET kept == ShiftRight(n, d)
                 rest == sticky \/ \E i \in 0..(d - 2) : Bit(n, i) = 1
                 up   == Bit(n, d - 1) = 1 /\ (rest \/ Bit(kept, 0) = 1)
                 r    == IF up THEN AddBig(kept, <<>>, 1) ELSE kept
             IN  IF BitLen(Trim(r)) > Mantissa
                 THEN [m |-> ShiftRight(Trim(r), 1), e |-> e + d + 1]
                 ELSE [m |-> r, e |-> e + d]

\* int / int, Python's true division: the correctly rounded quotient
\* (a, b naturals, b > 0, both below Base)
FracLimbs == 6

FDivInt(a, b) ==
    LET num == [j \in 1..(FracLimbs + 1) |-> IF j = FracLimbs + 1 THEN a ELSE 0]
        qr  == DivSmall(num, b)
    IN  RoundFloat(qr.q, 0 - FracLimbs * LimbBits, qr.r # 0)

\* float * int
FMulInt(f, c) ==
    IF f.m = <<>> \/ c = 0 THEN FZero ELSE RoundFloat(MulSmall(f.m, c, 0), f.e, FALSE)

\* float + float
FAdd(f, g) ==
    IF f.m = <<>> THEN g
    ELSE IF g.m = <<>> THEN f
    ELSE LET e == Min2(f.e, g.e)
         IN  RoundFloat(AddBig(ShiftLeft(f.m, f.e - e), ShiftLeft(g.m, g.e - e), 0), e, FALSE)

\* int(f): truncation toward zero of a non-negative float below 2^30
FInt(f) ==
    IF f.m = <<>> THEN 0
    ELSE IF f.e >= 0 THEN ToNat(ShiftLeft(f.m, f.e))
    ELSE ToNat(ShiftRight(f.m, 0 - f.e))

(***************************************************************************)
(* The score, save_to_leaderboard lines 507-511.                           *)
(***************************************************************************)
AccuracyWeight == 700

SpeedWeight == 300

TimeLimit == 1000

\* mutant: the quotient of an integer division
accuracy_integer_division(correct_answers, total_questions) ==
    FDivInt(correct_answers \div total_questions, 1)

\* accuracy = correct_answers / total_questions
accuracy(correct_answers, total_questions) == FDivInt(correct_answers, total_questions)

\* mutant: the remaining time divided by 100, not by 1000
speed_score_per_100(completion_time) == FDivInt(Max2(0, TimeLimit - completion_time), 100)

\* speed_score = max(0, 1000 - completion_time) / 1000
speed_score(completion_time) == FDivInt(Max2(0, TimeLimit - completion_time), TimeLimit)

\* mutant: rounded to the nearest integer, int(x + 0.5), not truncated
total_score_rounded(completion_time, correct_answers, total_questions) ==
    FInt(FAdd(FAdd(FMulInt(accuracy(correct_answers, total_questions), AccuracyWeight),
                   FMulInt(speed_score(completion_time), SpeedWeight)),
              FDivInt(1, 2)))

\* mutant: the two weights exchanged
total_score_speed_first(completion_time, correct_answers, total_questions) ==
    FInt(FAdd(FMulInt(accuracy(correct_answers, total_questions), SpeedWeight),
              FMulInt(speed_score(completion_time), AccuracyWeight)))

\* total_score = int((accuracy * 700) + (speed_score * 300))
total_score(completion_time, correct_answers, total_questions) ==
    FInt(FAdd(FMulInt(accuracy(correct_answers, total_questions), AccuracyWeight),
              FMulInt(speed_score(completion_time), SpeedWeight)))

(***************************************************************************)
(* The runs submitted.  A run is (completion_time, correct_answers,        *)
(* total_questions); the game always passes total_questions = 2.           *)
(***************************************************************************)
NameX == <<88>>

Namex == <<120>>

NameY == <<89>>

AgentNames == {NameX, Namex, NameY}

Runs == {<<60, 2, 2>>, <<59, 2, 2>>, <<10, 1, 2>>}

\* nine other agents that already played: names "a" .. "i", two of two
\* correct in 11 .. 19 seconds
FillerIds == 1..9

Filler(i) == [name |-> <<96 + i>>, time |-> 10 + i, correct |-> 2, total |-> 2]

\* int(time.time() - start_time) of a mission, line 900; the clock read
\* there is not earlier than the one of line 771
ElapsedTimes == {0, 60}

\* what a mission of two questions can submit
GameRuns == {<<t, c, 2>> : t \in ElapsedTimes, c \in 0..2}

\* the scores of the runs, each computed once
ScoreOf ==
    [r \in Runs \cup GameRuns
            \cup {<<Filler(i).time, Filler(i).correct, Filler(i).total>> : i \in FillerIds} |->
        total_score(r[1], r[2], r[3])]

(***************************************************************************)
(* Agent names are strings, held as sequences of character codes, so that  *)
(* str.lower() and SQL UPPER() are computed and not assumed.               *)
(***************************************************************************)
\* str.lower() on ASCII letters
lower(s) == [i \in DOMAIN s |-> IF s[i] >= 65 /\ s[i] <= 90 THEN s[i] + 32 ELSE s[i]]

\* SQL UPPER() on ASCII letters
UPPER(s) == [i \in DOMAIN s |-> IF s[i] >= 97 /\ s[i] <= 122 THEN s[i] - 32 ELSE s[i]]

(***************************************************************************)
(* State.                                                                  *)
(*   leaderboard  st.session_state.leaderboard, the local cache            *)
(*   db           the rows of table AGENT_LEADERBOARD, a bag (a table      *)
(*                keeps duplicates and has no order)                       *)
(*   configured   sf.password is set (the Snowflake secret is present)     *)
(*   today        CURRENT_DATE(), counted in days                          *)
(*   last         the last call of save_to_leaderboard: its arguments,     *)
(*                its score, what the database write did, and which        *)
(*                branch of lines 555-567 it took                          *)
(*   nSubmits     the number of calls so far                               *)
(*   calc         one evaluation of the score: its inputs and its result   *)
(*   sse          one call of process_sse_response on a stream             *)
(***************************************************************************)
VARIABLES leaderboard, db, configured, today, last, nSubmits, calc, sse, norm, game, hist

lbVars == <<leaderboard, db, configured, today, last, nSubmits>>

vars == <<leaderboard, db, configured, today, last, nSubmits, calc, sse, norm, game, hist>>

\* bounds of the exploration
MaxSubmits == 2

MaxDay == 1

\* "Keep only top 10", line 573; load_leaderboard_from_db asks for 10 rows
TopN == 10

\* the sidebar shows db_leaderboard[:5], line 667
SidebarN == 5

(***************************************************************************)
(* save_to_leaderboard, lines 502-573.                                     *)
(***************************************************************************)
\* new_entry, lines 513-521 (the 'accuracy' display string is derived from
\* correct_answers and total_questions and is left out)
new_entry(agent_name, completion_time, correct_answers, total_questions, score, now) ==
    [agent_name |-> agent_name, completion_time |-> completion_time,
     correct_answers |-> correct_answers, total_questions |-> total_questions,
     score |-> score, timestamp |-> now]

\* the row INSERTed by save_leaderboard_entry, lines 198-207
db_row(agent_name, completion_time, correct_answers, total_questions, score, now) ==
    [AGENT_NAME |-> agent_name, COMPLETION_TIME |-> completion_time,
     CORRECT_ANSWERS |-> correct_answers, TOTAL_QUESTIONS |-> total_questions,
     SCORE |-> score, MISSION_TIMESTAMP |-> now]

\* mutant: the names compared as typed, without lower()
same_agent_exact(entry_name, agent_name) == entry_name = agent_name

\* entry['agent_name'].lower() == agent_name.lower(), line 550
same_agent(entry_name, agent_name) == lower(entry_name) = lower(agent_name)

\* lines 548-552: the index of the first entry of the same agent, 0 for None
existing_index(lb, agent_name) ==
    IF \E i \in DOMAIN lb : same_agent(lb[i].agent_name, agent_name)
    THEN CHOOSE i \in DOMAIN lb :
            /\ same_agent(lb[i].agent_name, agent_name)
            /\ \A j \in 1..(i - 1) : ~same_agent(lb[j].agent_name, agent_name)
    ELSE 0

\* mutant: the comparison turned around
is_better_reversed(score, existing_score) == score < existing_score

\* line 557: total_score > existing_entry['score']
is_better(score, existing_score) == score > existing_score

\* mutant: the sort key without the completion time
key_less_score_only(a, b) == a.score > b.score

\* the sort key of line 570, (-score, completion_time): a sorts before b
key_less(a, b) ==
    \/ a.score > b.score
    \/ a.score = b.score /\ a.completion_time < b.completion_time

\* list.sort is stable: e goes after every entry whose key is not greater
insert_sorted(s, e) ==
    LET after == {i \in DOMAIN s : key_less(e, s[i])}
        pos   == IF after = {} THEN Len(s) + 1 ELSE CHOOSE i \in after : \A j \in after : i <= j
    IN  SubSeq(s, 1, pos - 1) \o <<e>> \o SubSeq(s, pos, Len(s))

\* line 570: leaderboard.sort(key=lambda x: (-x['score'], x['completion_time']))
RECURSIVE sort_leaderboard(_)
sort_leaderboard(s) ==
    IF s = <<>> THEN <<>> ELSE insert_sorted(sort_leaderboard(Front(s)), s[Len(s)])

\* mutant: no truncation
keep_all(s) == s

\* line 573: leaderboard[:10]
keep_top(s) == Take(s, TopN)

\* mutant: the entry is appended even when the agent has one
appended_always(lb, idx, entry) == Append(lb, entry)

\* lines 555-567: the list after the replacement or the append
updated_list(lb, idx, entry) ==
    IF idx # 0 THEN [lb EXCEPT ![idx] = entry] ELSE Append(lb, entry)

\* mutant: the run submitted last always replaces the entry
never_rejected(lb, idx, score) == FALSE

\* lines 555-564: an entry exists and the new score is not better: return
is_rejected(lb, idx, score) == idx # 0 /\ ~is_better(score, lb[idx].score)

\* lines 547-573 on the local cache
updated_cache(lb, entry) ==
    LET idx == existing_index(lb, entry.agent_name)
    IN  IF is_rejected(lb, idx, entry.score) THEN lb
        ELSE keep_top(sort_leaderboard(updated_list(lb, idx, entry)))

\* lines 527-545: the INSERT is attempted whenever the connector is
\* configured; dbres is what save_leaderboard_entry did: "saved" (returned
\* True), "failed" (returned False) or "raised"
DbResults == {"saved", "failed", "raised"}

db_saved(dbres) == configured /\ dbres = "saved"

table_after(table, row, dbres) ==
    IF db_saved(dbres)
    THEN [r \in DOMAIN table \cup {row} |->
            (IF r \in DOMAIN table THEN table[r] ELSE 0) + (IF r = row THEN 1 ELSE 0)]
    ELSE table

\* mutant: the session cache is written only when the table was not
cache_as_fallback(lb, entry, saved) == IF saved THEN lb ELSE updated_cache(lb, entry)

\* lines 547-573 run whatever lines 527-545 did: db_saved only chooses
\* the messages shown
cache_after(lb, entry, saved) == updated_cache(lb, entry)

save_to_leaderboard(agent_name, completion_time, correct_answers, total_questions, dbres) ==
    LET score == ScoreOf[<<completion_time, correct_answers, total_questions>>]
        entry == new_entry(agent_name, completion_time, correct_answers, total_questions, score, today)
        row   == db_row(agent_name, completion_time, correct_answers, total_questions, score, today)
        idx   == existing_index(leaderboard, agent_name)
    IN  /\ db' = table_after(db, row, dbres)
        /\ leaderboard' = cache_after(leaderboard, entry, db_saved(dbres))
        /\ last' = [op |-> "submit", agent_name |-> agent_name,
                    completion_time |-> completion_time,
                    correct_answers |-> correct_answers,
                    total_questions |-> total_questions, score |-> score,
                    dbres |-> IF configured THEN dbres ELSE "none",
                    existed |-> idx # 0,
                    accepted |-> ~is_rejected(leaderboard, idx, score),
                    previous_best |-> IF idx # 0 THEN leaderboard[idx].score ELSE 0 - 1]

(***************************************************************************)
(* get_leaderboard_from_db, lines 209-239: the best row of each            *)
(* UPPER(AGENT_NAME) among today's rows, ordered by SCORE DESC,            *)
(* COMPLETION_TIME ASC, LIMIT n.  SQL leaves the choice between rows of    *)
(* equal (SCORE, COMPLETION_TIME) open, both for ROW_NUMBER() = 1 and for  *)
(* the final order, so the query has a set of possible results.            *)
(***************************************************************************)
EmptyTable == [r \in {} |-> 0]

\* WHERE DATE(MISSION_TIMESTAMP) = CURRENT_DATE()
todays_rows(table, now) == {r \in DOMAIN table : r.MISSION_TIMESTAMP = now}

\* ORDER BY SCORE DESC, COMPLETION_TIME ASC: a strictly before b
row_before(a, b) ==
    \/ a.SCORE > b.SCORE
    \/ a.SCORE = b.SCORE /\ a.COMPLETION_TIME < b.COMPLETION_TIME

\* PARTITION BY UPPER(AGENT_NAME)
same_partition(a, b) == UPPER(a.AGENT_NAME) = UPPER(b.AGENT_NAME)

\* every result the query can give on `rows` with LIMIT `limit`: a first
\* row is one no row is ordered before (it is rn = 1 of its partition and
\* first of the final order); the rest is a result on the other partitions
RECURSIVE ranked_rows(_, _)
ranked_rows(rows, limit) ==
    IF rows = {} \/ limit <= 0 THEN {<<>>}
    ELSE LET firsts == {r \in rows : \A q \in rows : ~row_before(q, r)}
         IN  UNION {{<<r>> \o rest :
                        rest \in ranked_rows({q \in rows : ~same_partition(q, r)}, limit - 1)} :
                    r \in firsts}

get_leaderboard_from_db(limit) == ranked_rows(todays_rows(db, today), limit)

\* lines 589-599: a row as a session-state entry
row_entry(row) ==
    [agent_name |-> row.AGENT_NAME, completion_time |-> row.COMPLETION_TIME,
     correct_answers |-> row.CORRECT_ANSWERS, total_questions |-> row.TOTAL_QUESTIONS,
     score |-> row.SCORE, timestamp |-> row.MISSION_TIMESTAMP]

\* load_leaderboard_from_db, lines 575-606: every value it can return;
\* None is <<>> (its callers only test the result for truth).  `reachable`
\* says whether execute_query got an answer.
load_leaderboard_from_db(reachable) ==
    IF ~configured \/ ~reachable THEN {<<>>}
    ELSE {[i \in DOMAIN df |-> row_entry(df[i])] : df \in get_leaderboard_from_db(TopN)}

\* show_leaderboard, lines 612-621: the data it displays (<<>> when it says
\* "No agents have completed missions today.")
show_leaderboard(reachable) ==
    {IF db_leaderboard # <<>> THEN db_leaderboard ELSE leaderboard :
        db_leaderboard \in load_leaderboard_from_db(reachable)}

\* show_timer_sidebar, lines 662-677: the rows of the sidebar table (<<>>
\* when it says "No rankings yet today")
show_timer_sidebar(reachable) ==
    {Take(db_leaderboard, SidebarN) : db_leaderboard \in load_leaderboard_from_db(reachable)}

\* show_mission_complete, lines 934-949: the list the agent's position is
\* looked up in (<<>> when the position stays "Not ranked")
rank_lookup(reachable) ==
    {IF db_leaderboard # <<>> THEN db_leaderboard ELSE leaderboard :
        db_leaderboard \in load_leaderboard_from_db(reachable)}

FillerScore(i) == ScoreOf[<<Filler(i).time, Filler(i).correct, Filler(i).total>>]

FillerEntries ==
    [i \in FillerIds |->
        new_entry(Filler(i).name, Filler(i).time, Filler(i).correct, Filler(i).total,
                  FillerScore(i), 0)]

FillerTable ==
    [r \in {db_row(Filler(i).name, Filler(i).time, Filler(i).correct, Filler(i).total,
                   FillerScore(i), 0) : i \in FillerIds} |-> 1]

NoCall ==
    [op |-> "none", agent_name |-> <<>>, completion_time |-> 0, correct_answers |-> 0,
     total_questions |-> 0, score |-> 0, dbres |-> "none", existed |-> FALSE,
     accepted |-> FALSE, previous_best |-> 0 - 1]

\* the parts of the state a specification does not use stay at these values
LbIdle ==
    /\ leaderboard = <<>>
    /\ db = EmptyTable
    /\ configured = FALSE
    /\ today = 0
    /\ last = NoCall
    /\ nSubmits = 0

CalcIdle == calc = [pc |-> "idle"]

SseIdle == sse = [pc |-> "idle"]

NormIdle == norm = [pc |-> "idle"]

GameIdle == game = [pc |-> "idle"]

HistIdle == hist = [pc |-> "idle"]

(***************************************************************************)
(* Spec: the leaderboard.  A session starts with an empty cache            *)
(* (initialize_session_state); the table is shared and may already hold    *)
(* other sessions' rows.  The filled cache is the one nine calls of        *)
(* save_to_leaderboard for the nine other agents leave behind.             *)
(***************************************************************************)
Init ==
    /\ configured \in BOOLEAN
    /\ leaderboard \in {<<>>, FillerEntries}
    /\ db \in (IF configured THEN {EmptyTable, FillerTable} ELSE {EmptyTable})
    /\ today = 0
    /\ last = NoCall
    /\ nSubmits = 0
    /\ CalcIdle
    /\ SseIdle
    /\ NormIdle
    /\ GameIdle
    /\ HistIdle

Submit ==
    /\ nSubmits < MaxSubmits
    /\ \E agent_name \in AgentNames, run \in Runs, dbres \in DbResults :
          /\ configured \/ dbres = "failed"
          /\ save_to_leaderboard(agent_name, run[1], run[2], run[3], dbres)
    /\ nSubmits' = nSubmits + 1
    /\ UNCHANGED <<configured, today, calc, sse, norm, game, hist>>

\* midnight passes
NextDay ==
    /\ today < MaxDay
    /\ today' = today + 1
    /\ UNCHANGED <<leaderboard, db, configured, last, nSubmits, calc, sse, norm, game, hist>>

Next == Submit \/ NextDay

Spec == Init /\ [][Next]_vars

(***************************************************************************)
(* SpecCache: the session cache over a sequence of submissions, next to    *)
(* the cache of a second session that is fed the same submissions while    *)
(* its durable writes end otherwise.  `hist` holds that second cache and   *)
(* every (case-folded name, score) submitted so far.  Both caches start    *)
(* with the nine other agents, so that the tenth and eleventh agent fill   *)
(* and overflow them.                                                      *)
(***************************************************************************)
MaxCacheSubmits == 3

CacheRuns == {<<60, 2, 2>>, <<10, 1, 2>>, <<0, 2, 2>>}

CacheInit ==
    /\ configured \in BOOLEAN
    /\ leaderboard = FillerEntries
    /\ db = EmptyTable
    /\ today = 0
    /\ last = NoCall
    /\ nSubmits = 0
    /\ hist = [other |-> FillerEntries,
               submitted |-> {<<lower(FillerEntries[i].agent_name), FillerEntries[i].score>> :
                                 i \in FillerIds}]
    /\ CalcIdle
    /\ SseIdle
    /\ NormIdle
    /\ GameIdle

\* save_to_leaderboard in both sessions, with the same arguments
CacheSubmit ==
    /\ nSubmits < MaxCacheSubmits
    /\ \E agent_name \in AgentNames, run \in CacheRuns, dbres \in {"saved", "failed"},
          other_saved \in BOOLEAN :
          LET score == ScoreOf[run]
              entry == new_entry(agent_name, run[1], run[2], run[3], score, today)
          IN  /\ configured \/ dbres = "failed"
              /\ save_to_leaderboard(agent_name, run[1], run[2], run[3], dbres)
              /\ hist' = [other |-> cache_after(hist.other, entry, other_saved),
                          submitted |-> hist.submitted \cup {<<lower(agent_name), score>>}]
    /\ nSubmits' = nSubmits + 1
    /\ UNCHANGED <<configured, today, calc, sse, norm, game>>

CacheNext == CacheSubmit

SpecCache == CacheInit /\ [][CacheNext]_vars

(***************************************************************************)
(* SpecScore: the score as a pure function of its inputs.                  *)
(***************************************************************************)
MaxTotal == 3

MaxElapsed == 1001

ScoreInit ==
    /\ LbIdle
    /\ SseIdle
    /\ NormIdle
    /\ GameIdle
    /\ HistIdle
    /\ \E total_questions \in 1..MaxTotal :
         \E correct_answers \in 0..total_questions :
           \E completion_time \in 0..MaxElapsed :
              calc = [pc |-> "input", completion_time |-> completion_time,
                      correct_answers |-> correct_answers,
                      total_questions |-> total_questions]

Compute ==
    /\ calc.pc = "input"
    /\ calc' = [pc |-> "done", completion_time |-> calc.completion_time,
                correct_answers |-> calc.correct_answers,
                total_questions |-> calc.total_questions,
                score |-> total_score(calc.completion_time, calc.correct_answers,
                                      calc.total_questions)]
    /\ UNCHANGED <<lbVars, sse, norm, game, hist>>

ScoreNext == Compute

SpecScore == ScoreInit /\ [][ScoreNext]_vars

(***************************************************************************)
(* Text.  A string is a sequence of characters, a character a one-letter   *)
(* string; the characters outside ASCII that clean_text names are written  *)
(* by their code points.                                                   *)
(***************************************************************************)
ATilde == "U+00E3"

ACirc == "U+00E2"

X80 == "U+0080"

X90 == "U+0090"

X91 == "U+0091"

\* characters \s matches and str.strip() removes
Whitespace == {" ", "\t", "\n", "\r"}

\* characters \d matches
Digits == {"0", "1", "2", "3", "4", "5", "6", "7", "8", "9"}

\* s[i:i+len(old)] == old
starts_at(s, i, old) ==
    /\ i + Len(old) - 1 <= Len(s)
    /\ \A k \in 1..Len(old) : s[i + k - 1] = old[k]

\* str.replace(old, new) from place i on: the occurrences of old, found
\* left to right and not overlapping, become new
RECURSIVE replace_from(_, _, _, _)
replace_from(s, i, old, new) ==
    LET found == {j \in i..Len(s) : starts_at(s, j, old)}
    IN  IF found = {} THEN SubSeq(s, i, Len(s))
        ELSE LET j == CHOOSE j \in found : \A h \in found : j <= h
             IN  SubSeq(s, i, j - 1) \o new \o replace_from(s, j + Len(old), old, new)

replace(s, old, new) == replace_from(s, 1, old, new)

\* lines 62-84: the replacements of clean_text, in the order it makes them
Replacements ==
    << <<<<ATilde, X80, X90>>, <<>>>>,
       <<<<ACirc, X80>>, <<>>>>,
       <<<<ATilde, X80, X91>>, <<>>>>,
       <<<<X80>>, <<>>>>,
       <<<<X90>>, <<>>>>,
       <<<<X91>>, <<>>>>,
       <<<<"T","h","e","c","o","d","e","w","o","r","d">>,
         <<"T","h","e"," ","c","o","d","e","w","o","r","d">>>>,
       <<<<"T","h","e","k","e","y","p","h","r","a","s","e">>,
         <<"T","h","e"," ","k","e","y","p","h","r","a","s","e">>>>,
       <<<<"T","h","e","a","g","e","n","t">>, <<"T","h","e"," ","a","g","e","n","t">>>>,
       <<<<"T","h","e","m","i","s","s","i","o","n">>,
         <<"T","h","e"," ","m","i","s","s","i","o","n">>>>,
       <<<<"T","h","e","l","o","c","a","t","i","o","n">>,
         <<"T","h","e"," ","l","o","c","a","t","i","o","n">>>>,
       <<<<"I","d","o","n","'","t">>, <<"I"," ","d","o","n","'","t">>>>,
       <<<<"I","c","a","n","'","t">>, <<"I"," ","c","a","n","'","t">>>>,
       <<<<"I","w","i","l","l">>, <<"I"," ","w","i","l","l">>>>,
       <<<<"I","a","m">>, <<"I"," ","a","m">>>>,
       <<<<"I","d","o","n","'","t">>, <<"I"," ","d","o","n","'","t">>>>,
       <<<<"I","c","a","n","'","t">>, <<"I"," ","c","a","n","'","t">>>>,
       <<<<"I","w","i","l","l">>, <<"I"," ","w","i","l","l">>>>,
       <<<<"I","a","m">>, <<"I"," ","a","m">>>>,
       <<<<"t","h","a","t","q","u","e","s","t","i","o","n">>,
         <<"t","h","a","t"," ","q","u","e","s","t","i","o","n">>>>,
       <<<<"k","n","o","w","t","h","e">>, <<"k","n","o","w"," ","t","h","e">>>> >>

RECURSIVE replace_all(_, _)
replace_all(s, k) ==
    IF k > Len(Replacements) THEN s
    ELSE LET replaced == replace(s, Replacements[k][1], Replacements[k][2])
         IN  IF Len(replaced) = 0 THEN replaced ELSE replace_all(replaced, k + 1)

\* the place after the longest run of characters of C that starts at i
RECURSIVE run_end(_, _, _)
run_end(s, i, C) == IF i <= Len(s) /\ s[i] \in C THEN run_end(s, i + 1, C) ELSE i

\* a regular expression of the kind clean_text uses: a sequence of parts,
\* each a character class taken once, or greedily `min` or more times; no
\* class meets the one after it, so the greedy match is the only match
One(C) == [chars |-> C, min |-> 1, many |-> FALSE]

Many(C, min) == [chars |-> C, min |-> min, many |-> TRUE]

\* r'\s+\d+\s+\.'
NumberBeforePeriod == <<Many(Whitespace, 1), Many(Digits, 1), Many(Whitespace, 1), One({"."})>>

\* r'"\s*\d+\s*\.'
NumberAfterQuote ==
    <<One({"\""}), Many(Whitespace, 0), Many(Digits, 1), Many(Whitespace, 0), One({"."})>>

\* r'\s+'
Spaces == <<Many(Whitespace, 1)>>

\* the place after the match of parts k.. of pat at place i, or 0
RECURSIVE match_at(_, _, _, _)
match_at(s, i, pat, k) ==
    IF k > Len(pat) THEN i
    ELSE LET part == pat[k]
             j    == IF part.many THEN run_end(s, i, part.chars)
                     ELSE IF i <= Len(s) /\ s[i] \in part.chars THEN i + 1 ELSE i
         IN  IF j - i < part.min THEN 0 ELSE match_at(s, j, pat, k + 1)

\* re.sub(pat, repl, s) from place i on
RECURSIVE re_sub_from(_, _, _, _)
re_sub_from(pat, repl, s, i) ==
    LET found == {j \in i..Len(s) : match_at(s, j, pat, 1) # 0}
    IN  IF found = {} THEN SubSeq(s, i, Len(s))
        ELSE LET j == CHOOSE j \in found : \A h \in found : j <= h
             IN  SubSeq(s, i, j - 1) \o repl \o re_sub_from(pat, repl, s, match_at(s, j, pat, 1))

re_sub(pat, repl, s) == re_sub_from(pat, repl, s, 1)

\* str.strip()
strip(s) ==
    LET kept == {i \in 1..Len(s) : s[i] \notin Whitespace}
    IN  IF kept = {} THEN <<>>
        ELSE LET lo == CHOOSE i \in kept : \A j \in kept : i <= j
                 hi == CHOOSE i \in kept : \A j \in kept : j <= i
             IN  [k \in 1..(hi - lo + 1) |-> s[lo + k - 1]]

\* clean_text, lines 56-94
clean_text(text) ==
    IF text = <<>> THEN text
    ELSE strip(re_sub(Spaces, <<" ">>,
               re_sub(NumberAfterQuote, <<"\"", ".">>,
               re_sub(NumberBeforePeriod, <<" ", ".">>, replace_all(text, 1)))))

(***************************************************************************)
(* Python values as json.loads gives them.  Every value is a record of     *)
(* one shape: t is its type; a str holds its characters in chars, a list   *)
(* its items in items, a dict its keys and their values, in document       *)
(* order, in keys and items (the last place of a key is the one the dict   *)
(* keeps), a number its value in n.                                        *)
(***************************************************************************)
Str(chars) == [t |-> "str", chars |-> chars, keys |-> <<>>, items |-> <<>>, n |-> 0]

Num(n) == [t |-> "num", chars |-> <<>>, keys |-> <<>>, items |-> <<>>, n |-> n]

List(items) == [t |-> "list", chars |-> <<>>, keys |-> <<>>, items |-> items, n |-> 0]

Dict(pairs) ==
    [t |-> "dict", chars |-> <<>>, keys |-> [i \in DOMAIN pairs |-> pairs[i][1]],
     items |-> [i \in DOMAIN pairs |-> pairs[i][2]], n |-> 0]

None == [t |-> "null", chars |-> <<>>, keys |-> <<>>, items |-> <<>>, n |-> 0]

is_str(x, chars) == x.t = "str" /\ x.chars = chars

\* key in d, for a dict d
has_key(d, key) == \E i \in DOMAIN d.keys : d.keys[i] = key

\* d.get(key, default), for a dict d
py_get(d, key, default) ==
    LET places == {i \in DOMAIN d.keys : d.keys[i] = key}
    IN  IF places = {} THEN default ELSE d.items[MaxOf(places)]

\* `for x in value` raises TypeError unless value is a list, a dict or a str
iterable(x) == x.t \in {"list", "dict", "str"}

\* what the loop goes through: the items of a list, the keys of a dict,
\* the characters of a str (keys and characters are strs)
elements(x) ==
    IF x.t = "list" THEN x.items
    ELSE IF x.t = "dict" THEN [i \in DOMAIN x.keys |-> Str(<<x.keys[i]>>)]
    ELSE [i \in DOMAIN x.chars |-> Str(<<x.chars[i]>>)]

MessageDelta == <<"m","e","s","s","a","g","e",".","d","e","l","t","a">>

ToolResults == <<"t","o","o","l","_","r","e","s","u","l","t","s">>

Text == <<"t","e","x","t">>

Json == <<"j","s","o","n">>

Content == <<"c","o","n","t","e","n","t">>

(***************************************************************************)
(* The walk of the parsed events, lines 353-381.  acc holds text, sql and  *)
(* citations as built so far; `raised` says that an exception has left     *)
(* the walk for the handler of line 421.                                   *)
(***************************************************************************)
NoResult == [text |-> <<>>, sql |-> Str(<<>>), citations |-> <<>>, raised |-> FALSE]

\* mutant: the exception discards what was accumulated
raise_discarding(acc) == [NoResult EXCEPT !.raised = TRUE]

\* an exception leaves the walk; text, sql and citations stay as they are
raise(acc) == [acc EXCEPT !.raised = TRUE]

\* lines 373-376; .get on a search result that is no dict raises
citation(search_result) ==
    [source_id |-> py_get(search_result, "source_id", Str(<<>>)),
     doc_id    |-> py_get(search_result, "doc_id", Str(<<>>))]

\* mutant: a citation already in the list is not added again
append_citation_unique(citations, c) ==
    IF c \in Range(citations) THEN citations ELSE Append(citations, c)

\* citations.append(...)
append_citation(citations, c) == Append(citations, c)

\* lines 372-376
RECURSIVE walk_search_results(_, _, _)
walk_search_results(acc, items, i) ==
    IF acc.raised \/ i > Len(items) THEN acc
    ELSE IF items[i].t # "dict" THEN raise(acc)
    ELSE walk_search_results(
            [acc EXCEPT !.citations = append_citation(@, citation(items[i]))], items, i + 1)

\* text += clean_text(raw_text): clean_text returns a falsy value as it
\* is and calls .replace on any other, += takes a str only
add_text(acc, raw_text) ==
    IF raw_text.t # "str" THEN raise(acc)
    ELSE [acc EXCEPT !.text = @ \o clean_text(raw_text.chars)]

\* lines 367-377, for one result of type json
walk_json(acc, json_data) ==
    IF json_data.t # "dict" THEN raise(acc)
    ELSE LET acc1 == add_text(acc, py_get(json_data, "text", Str(<<>>)))
             search_results == py_get(json_data, "searchResults", List(<<>>))
         IN  IF acc1.raised THEN acc1
             ELSE IF ~iterable(search_results) THEN raise(acc1)
             ELSE LET acc2 == walk_search_results(acc1, elements(search_results), 1)
                  IN  IF acc2.raised THEN acc2
                      ELSE [acc2 EXCEPT !.sql = py_get(json_data, "sql", Str(<<>>))]

\* lines 365-377
RECURSIVE walk_results(_, _, _)
walk_results(acc, results, i) ==
    IF acc.raised \/ i > Len(results) THEN acc
    ELSE IF results[i].t # "dict" THEN raise(acc)
    ELSE IF is_str(py_get(results[i], "type", None), Json)
         THEN walk_results(walk_json(acc, py_get(results[i], "json", Dict(<<>>))),
                           results, i + 1)
    ELSE walk_results(acc, results, i + 1)

\* chars occurs in the str s
is_substring(chars, s) == \E i \in 1..(Len(s) + 1) : starts_at(s, i, chars)

\* lines 363-377: `'content' in tool_results` looks for a key of a dict,
\* an item of a list, a substring of a str, and raises on anything else;
\* tool_results['content'] raises on a list and on a str
walk_tool_results(acc, tool_results) ==
    IF tool_results.t = "dict"
    THEN IF ~has_key(tool_results, "content") THEN acc
         ELSE LET results == py_get(tool_results, "content", None)
              IN  IF ~iterable(results) THEN raise(acc)
                  ELSE walk_results(acc, elements(results), 1)
    ELSE IF tool_results.t = "list"
    THEN IF \E i \in DOMAIN tool_results.items : is_str(tool_results.items[i], Content)
         THEN raise(acc) ELSE acc
    ELSE IF tool_results.t = "str"
    THEN IF is_substring(Content, tool_results.chars) THEN raise(acc) ELSE acc
    ELSE raise(acc)

\* lines 361-381, for one item of the delta's content
walk_content_item(acc, content_item) ==
    IF content_item.t # "dict" THEN raise(acc)
    ELSE LET content_type == py_get(content_item, "type", None)
         IN  IF is_str(content_type, ToolResults)
             THEN walk_tool_results(acc, py_get(content_item, "tool_results", Dict(<<>>)))
             ELSE IF is_str(content_type, Text)
             THEN add_text(acc, py_get(content_item, "text", Str(<<>>)))
             ELSE acc

\* line 360
RECURSIVE walk_content(_, _, _)
walk_content(acc, items, i) ==
    IF acc.raised \/ i > Len(items) THEN acc
    ELSE walk_content(walk_content_item(acc, items[i]), items, i + 1)

\* an event is a dict with at most the keys 'event' and 'data': each is
\* <<>> when the key is absent and <<value>> when it is there
NoEvent == [event |-> <<>>, data |-> <<>>]

\* bool(current_event)
nonempty(event) == event.event # <<>> \/ event.data # <<>>

\* mutant: every event is read, whatever its name
is_message_delta_any(event) == TRUE

\* line 356: event.get('event') == "message.delta"
is_message_delta(event) == event.event = <<MessageDelta>>

\* lines 356-381, for one event
walk_event(acc, event) ==
    IF ~is_message_delta(event) THEN acc
    ELSE LET data == IF event.data = <<>> THEN Dict(<<>>) ELSE event.data[1]
         IN  IF data.t # "dict" THEN raise(acc)
             ELSE LET delta == py_get(data, "delta", Dict(<<>>))
                  IN  IF delta.t # "dict" THEN raise(acc)
                      ELSE LET content == py_get(delta, "content", List(<<>>))
                           IN  IF ~iterable(content) THEN raise(acc)
                               ELSE walk_content(acc, elements(content), 1)

\* line 355
RECURSIVE walk_events(_, _, _)
walk_events(acc, events, i) ==
    IF acc.raised \/ i > Len(events) THEN acc
    ELSE walk_events(walk_event(acc, events[i]), events, i + 1)

(***************************************************************************)
(* The lines of the stream, lines 321-343.  A line is given by what is     *)
(* left of it after line.strip(): nothing (blank), 'event:' and the rest,  *)
(* 'data:' and the rest, or anything else.  The rest of a data line is a   *)
(* JSON document, given by the value it denotes, or text that is no JSON.  *)
(***************************************************************************)
EventLine(rest) == [kind |-> "event", rest |-> rest, json |-> FALSE, value |-> None]

DataJson(value) == [kind |-> "data", rest |-> <<>>, json |-> TRUE, value |-> value]

DataText(chars) == [kind |-> "data", rest |-> chars, json |-> FALSE, value |-> None]

BlankLine == [kind |-> "blank", rest |-> <<>>, json |-> FALSE, value |-> None]

OtherLine == [kind |-> "other", rest |-> <<":">>, json |-> FALSE, value |-> None]

Done == <<"[","D","O","N","E","]">>

\* line 335: json.loads(data_str) gives the value of a document and
\* raises JSONDecodeError on other text; line 338 then stores the text
parsed_data(line) ==
    IF line.json THEN line.value ELSE Str(clean_text(strip(line.rest)))

\* mutant: text that is no JSON is dropped
is_payload_json_only(line) == line.json

\* mutant: whatever follows 'data:' is a payload
is_payload_any(line) == TRUE

\* line 333: data_str and data_str != '[DONE]'
is_payload(line) == line.json \/ (strip(line.rest) # <<>> /\ strip(line.rest) # Done)

\* mutant: the event in progress is dropped, not saved
flushed_dropped(events, current_event) == events

\* lines 328-329 and 341-342: the events after a flush of current_event
flushed(events, current_event) ==
    IF nonempty(current_event) THEN Append(events, current_event) ELSE events

\* lines 325-343: events and current_event after one line of the stream
events_after(events, current_event, line) ==
    IF line.kind \in {"event", "blank"} THEN flushed(events, current_event) ELSE events

\* mutant: a payload does not replace the one the event already holds
current_event_after_keep_first(current_event, line) ==
    IF line.kind = "event" THEN [event |-> <<strip(line.rest)>>, data |-> <<>>]
    ELSE IF line.kind = "data"
    THEN IF is_payload(line) /\ current_event.data = <<>>
         THEN [current_event EXCEPT !.data = <<parsed_data(line)>>]
         ELSE current_event
    ELSE IF line.kind = "blank" THEN NoEvent
    ELSE current_event

\* lines 335 and 338: the assignment to current_event['data'] replaces
\* the value the key held
current_event_after(current_event, line) ==
    IF line.kind = "event" THEN [event |-> <<strip(line.rest)>>, data |-> <<>>]
    ELSE IF line.kind = "data"
    THEN IF is_payload(line)
         THEN [current_event EXCEPT !.data = <<parsed_data(line)>>]
         ELSE current_event
    ELSE IF line.kind = "blank" THEN NoEvent
    ELSE current_event

\* lines 353-427 for a list of events: the walk, then the final
\* clean_text of the text; `error` says that line 422 reported an exception
decoded(events) ==
    LET acc == walk_events(NoResult, events, 1)
    IN  [text |-> clean_text(acc.text), sql |-> acc.sql, citations |-> acc.citations,
         error |-> acc.raised]

(***************************************************************************)
(* SpecSSE: process_sse_response on a streamed response.  The lines come   *)
(* one at a time from response.iter_lines; the stream ends when the        *)
(* iterator is exhausted, or when iter_lines raises because the            *)
(* connection broke or timed out (requests raises ChunkedEncodingError or  *)
(* ConnectionError out of the iterator).                                   *)
(***************************************************************************)
SearchA == Dict(<< <<"source_id", Str(<<"s","1">>)>>, <<"doc_id", Str(<<"d","1">>)>> >>)

SearchB == Dict(<< <<"doc_id", Str(<<"d","2">>)>> >>)

Sql1 == <<"Q","1">>

Sql2 == <<"Q","2">>

Delta(content_items) == Dict(<< <<"delta", Dict(<< <<"content", List(content_items)>> >>)>> >>)

ToolItem(results) ==
    Dict(<< <<"type", Str(ToolResults)>>,
            <<"tool_results", Dict(<< <<"content", List(results)>> >>)>> >>)

JsonResult(json_data) == Dict(<< <<"type", Str(Json)>>, <<"json", json_data>> >>)

TextItem(chars) == Dict(<< <<"type", Str(Text)>>, <<"text", Str(chars)>> >>)

\* two records in one event: the first with text, sql and a search
\* result, the second without sql and with a search result seen before
TwoRecords ==
    Delta(<<ToolItem(<<
        JsonResult(Dict(<< <<"text", Str(<<"I","a","m">>)>>, <<"sql", Str(Sql1)>>,
                           <<"searchResults", List(<<SearchA>>)>> >>)),
        JsonResult(Dict(<< <<"text", Str(<<" ","o","k">>)>>,
                           <<"searchResults", List(<<SearchB, SearchA>>)>> >>)) >>)>>)

\* one record with sql and a search result
OneRecord ==
    Delta(<<ToolItem(<<
        JsonResult(Dict(<< <<"sql", Str(Sql2)>>,
                           <<"searchResults", List(<<SearchA>>)>> >>)) >>)>>)

\* a record whose second search result is a number
BadRecord ==
    Delta(<<ToolItem(<<
        JsonResult(Dict(<< <<"sql", Str(Sql1)>>,
                           <<"searchResults", List(<<SearchB, Num(5)>>)>> >>)) >>)>>)

\* a text item
TextDelta == Delta(<<TextItem(<<"a"," ","1"," ",".">>)>>)

\* the example of the specification: text 'Thecodeword is Shadow', sql
\* 'SELECT 1', one search result {s1, M001}
SearchM001 ==
    Dict(<< <<"source_id", Str(<<"s","1">>)>>, <<"doc_id", Str(<<"M","0","0","1">>)>> >>)

Select1 == <<"S","E","L","E","C","T"," ","1">>

ShadowRecord ==
    Delta(<<ToolItem(<<
        JsonResult(Dict(<< <<"text", Str(<<"T","h","e","c","o","d","e","w","o","r","d"," ",
                                          "i","s"," ","S","h","a","d","o","w">>)>>,
                           <<"sql", Str(Select1)>>,
                           <<"searchResults", List(<<SearchM001>>)>> >>)) >>)>>)

\* one record whose text has two numbers before a period
NumbersRecord ==
    Delta(<<ToolItem(<<
        JsonResult(Dict(<< <<"text", Str(<<"a"," ","1"," ","2"," ",".">>)>>,
                           <<"sql", Str(Sql1)>>,
                           <<"searchResults", List(<<SearchB>>)>> >>)) >>)>>)

\* content items of shapes the walk has no branch for, around one text
\* item: an unknown type tag, no keys at all, a tool result that is no
\* json, a tool_results item without content
UnknownShapes ==
    Delta(<<Dict(<< <<"type", Str(<<"i","m","a","g","e">>)>> >>),
            Dict(<<>>),
            TextItem(<<"o","k">>),
            ToolItem(<<Dict(<< <<"type", Str(Text)>> >>)>>),
            Dict(<< <<"type", Str(ToolResults)>> >>)>>)

Lines ==
    <<EventLine(<<" ">> \o MessageDelta), EventLine(<<"d","o","n","e">>),
      BlankLine, OtherLine,
      DataJson(TwoRecords), DataJson(OneRecord), DataJson(BadRecord), DataJson(TextDelta),
      DataText(<<" ">> \o Done), DataText(<<"{","o","o","p","s">>), DataText(<<" ">>),
      DataJson(ShadowRecord), DataJson(NumbersRecord), DataJson(UnknownShapes)>>

MaxLines == 4

\* lines 307-309 and 317-318; `walked` says that the walk of line 353
\* was reached, `line` which of Lines the loop took last, `overwrote`
\* that this line assigned to a 'data' key that held a value
SseInit ==
    /\ LbIdle
    /\ CalcIdle
    /\ NormIdle
    /\ GameIdle
    /\ HistIdle
    /\ sse = [pc |-> "reading", n |-> 0, events |-> <<>>, current_event |-> NoEvent,
              text |-> <<>>, sql |-> Str(<<>>), citations |-> <<>>, error |-> FALSE,
              walked |-> FALSE, line |-> 0, overwrote |-> FALSE]

\* lines 321-343: one turn of the loop
RecvLine ==
    /\ sse.pc = "reading"
    /\ sse.n < MaxLines
    /\ \E k \in DOMAIN Lines :
          sse' = [sse EXCEPT !.n = @ + 1, !.line = k,
                             !.overwrote = /\ Lines[k].kind = "data"
                                           /\ is_payload(Lines[k])
                                           /\ sse.current_event.data # <<>>,
                             !.events = events_after(sse.events, sse.current_event, Lines[k]),
                             !.current_event = current_event_after(sse.current_event, Lines[k])]
    /\ UNCHANGED <<lbVars, calc, norm, game, hist>>

\* the iterator is exhausted: lines 345-350, then lines 353-427
StreamEnd ==
    /\ sse.pc = "reading"
    /\ LET events == flushed(sse.events, sse.current_event)
           result == decoded(events)
       IN  sse' = [sse EXCEPT !.pc = "done", !.events = events,
                              !.text = result.text, !.sql = result.sql,
                              !.citations = result.citations, !.error = result.error,
                              !.walked = TRUE]
    /\ UNCHANGED <<lbVars, calc, norm, game, hist>>

\* iter_lines raises: line 321 leaves the try block for line 421, and
\* lines 425-427 return the text, sql and citations of lines 307-309
StreamRaise ==
    /\ sse.pc = "reading"
    /\ sse' = [sse EXCEPT !.pc = "done", !.text = clean_text(<<>>), !.error = TRUE]
    /\ UNCHANGED <<lbVars, calc, norm, game, hist>>

SseNext == RecvLine \/ StreamEnd \/ StreamRaise

SpecSSE == SseInit /\ [][SseNext]_vars

(***************************************************************************)
(* SpecDirect: process_sse_response on a response that is no stream but a  *)
(* dict, lines 383-419: the 'choices' format, or a 'message' of its own.   *)
(***************************************************************************)

\* lines 399-410, for one result of type json: sql is set before the
\* search results are read
walk_json_direct(acc, json_data) ==
    IF json_data.t # "dict" THEN raise(acc)
    ELSE LET acc1 == add_text(acc, py_get(json_data, "text", Str(<<>>)))
             acc2 == [acc1 EXCEPT !.sql = py_get(json_data, "sql", Str(<<>>))]
             search_results == py_get(json_data, "searchResults", List(<<>>))
         IN  IF acc1.raised THEN acc1
             ELSE IF ~iterable(search_results) THEN raise(acc2)
             ELSE walk_search_results(acc2, elements(search_results), 1)

\* lines 398-410
RECURSIVE walk_results_direct(_, _, _)
walk_results_direct(acc, results, i) ==
    IF acc.raised \/ i > Len(results) THEN acc
    ELSE IF results[i].t # "dict" THEN raise(acc)
    ELSE IF is_str(py_get(results[i], "type", None), Json)
         THEN walk_results_direct(
                 walk_json_direct(acc, py_get(results[i], "json", Dict(<<>>))), results, i + 1)
    ELSE walk_results_direct(acc, results, i + 1)

\* lines 396-410; a dict is all the input gives for tool_results
walk_tool_results_direct(acc, tool_results) ==
    IF tool_results.t # "dict" THEN raise(acc)
    ELSE IF ~has_key(tool_results, "content") THEN acc
    ELSE LET results == py_get(tool_results, "content", None)
         IN  IF ~iterable(results) THEN raise(acc)
             ELSE walk_results_direct(acc, elements(results), 1)

\* mutant: the message format reads tool results as the choices format does
walk_message_item_as_choice(acc, item) ==
    IF item.t # "dict" THEN raise(acc)
    ELSE IF is_str(py_get(item, "type", None), Text)
         THEN add_text(acc, py_get(item, "text", Str(<<>>)))
    ELSE IF is_str(py_get(item, "type", None), ToolResults)
         THEN walk_tool_results_direct(acc, py_get(item, "tool_results", Dict(<<>>)))
    ELSE acc

\* lines 392-410, for one item of a choice's content
walk_choice_item(acc, item) ==
    IF item.t # "dict" THEN raise(acc)
    ELSE IF is_str(py_get(item, "type", None), Text)
         THEN add_text(acc, py_get(item, "text", Str(<<>>)))
    ELSE IF is_str(py_get(item, "type", None), ToolResults)
         THEN walk_tool_results_direct(acc, py_get(item, "tool_results", Dict(<<>>)))
    ELSE acc

\* lines 415-418, for one item of the message's content
walk_message_item(acc, item) ==
    IF item.t # "dict" THEN raise(acc)
    ELSE IF is_str(py_get(item, "type", None), Text)
         THEN add_text(acc, py_get(item, "text", Str(<<>>)))
    ELSE acc

\* lines 391 and 414: the items of a content, in `choices` or not
RECURSIVE walk_items(_, _, _, _)
walk_items(acc, items, i, in_choice) ==
    IF acc.raised \/ i > Len(items) THEN acc
    ELSE walk_items(IF in_choice THEN walk_choice_item(acc, items[i])
                    ELSE walk_message_item(acc, items[i]),
                    items, i + 1, in_choice)

\* message.get('content', []) of lines 388-389 and 412-413, walked
walk_message(acc, message, in_choice) ==
    IF message.t # "dict" THEN raise(acc)
    ELSE LET content == py_get(message, "content", List(<<>>))
         IN  IF ~iterable(content) THEN raise(acc)
             ELSE walk_items(acc, elements(content), 1, in_choice)

\* lines 386-410
RECURSIVE walk_choices(_, _, _)
walk_choices(acc, choices, i) ==
    IF acc.raised \/ i > Len(choices) THEN acc
    ELSE IF choices[i].t # "dict" THEN raise(acc)
    ELSE walk_choices(walk_message(acc, py_get(choices[i], "message", Dict(<<>>)), TRUE),
                      choices, i + 1)

\* lines 311-312 and 383-427 for a dict
decoded_direct(response) ==
    LET acc == IF response.keys = <<>> THEN NoResult
               ELSE IF has_key(response, "choices")
               THEN LET choices == py_get(response, "choices", None)
                    IN  IF ~iterable(choices) THEN raise(NoResult)
                        ELSE walk_choices(NoResult, elements(choices), 1)
               ELSE IF has_key(response, "message")
               THEN walk_message(NoResult, py_get(response, "message", Dict(<<>>)), FALSE)
               ELSE NoResult
    IN  [text |-> clean_text(acc.text), sql |-> acc.sql, citations |-> acc.citations,
         error |-> acc.raised]

\* the content items the responses are made of: text, a tool result with
\* text, sql and a search result, an item of another type, a number
DirectItems ==
    <<TextItem(<<"o","k">>),
      TextItem(<<"I","a","m">>),
      ToolItem(<<JsonResult(Dict(<< <<"text", Str(<<"x">>)>>, <<"sql", Str(Sql1)>>,
                                    <<"searchResults", List(<<SearchA>>)>> >>))>>),
      Dict(<< <<"type", Str(<<"i","m","a","g","e">>)>> >>),
      Num(5)>>

MaxItems == 3

\* the content lists of at most MaxItems items
Contents ==
    UNION {{[i \in 1..n |-> DirectItems[f[i]]] : f \in [1..n -> DOMAIN DirectItems]} :
             n \in 0..MaxItems}

Message(content) == Dict(<< <<"content", List(content)>> >>)

\* a response of the 'message' format, of the 'choices' format with one
\* choice, and one with both keys
Responses(content) ==
    {Dict(<< <<"message", Message(content)>> >>),
     Dict(<< <<"choices", List(<<Dict(<< <<"message", Message(content)>> >>)>>)>> >>),
     Dict(<< <<"message", Message(content)>>,
             <<"choices", List(<<Dict(<< <<"message", Message(<<>>)>> >>)>>)>> >>)}

DirectInit ==
    /\ LbIdle
    /\ CalcIdle
    /\ NormIdle
    /\ GameIdle
    /\ HistIdle
    /\ \E content \in Contents : \E response \in Responses(content) :
          sse = [pc |-> "response", response |-> response, text |-> <<>>,
                 sql |-> Str(<<>>), citations |-> <<>>, error |-> FALSE]

Decode ==
    /\ sse.pc = "response"
    /\ LET result == decoded_direct(sse.response)
       IN  sse' = [sse EXCEPT !.pc = "done", !.text = result.text, !.sql = result.sql,
                              !.citations = result.citations, !.error = result.error]
    /\ UNCHANGED <<lbVars, calc, norm, game, hist>>

DirectNext == Decode

SpecDirect == DirectInit /\ [][DirectNext]_vars

(***************************************************************************)
(* SpecText: clean_text as a pure function.  The text is made of up to     *)
(* MaxFrags fragments; clean_text is applied to it, and once more to what  *)
(* it returned.                                                            *)
(***************************************************************************)
Fragments ==
    << <<"a", " ">>, <<"1", " ">>, <<"2", " ">>, <<".">>, <<"\"">>, <<"I">>, <<"a", "m">>,
       <<X80>> >>

MaxFrags == 4

\* the texts of exactly k fragments
RECURSIVE TextsOf(_)
TextsOf(k) ==
    IF k = 0 THEN {<<>>}
    ELSE {t \o Fragments[f] : t \in TextsOf(k - 1), f \in DOMAIN Fragments}

Texts == UNION {TextsOf(k) : k \in 0..MaxFrags}

TextInit ==
    /\ LbIdle
    /\ CalcIdle
    /\ SseIdle
    /\ GameIdle
    /\ HistIdle
    /\ \E t \in Texts : norm = [pc |-> "raw", text |-> t, once |-> <<>>, twice |-> <<>>]

\* clean_text(text)
Normalize ==
    /\ norm.pc = "raw"
    /\ norm' = [norm EXCEPT !.pc = "once", !.once = clean_text(norm.text)]
    /\ UNCHANGED <<lbVars, calc, sse, game, hist>>

\* clean_text(clean_text(text))
Renormalize ==
    /\ norm.pc = "once"
    /\ norm' = [norm EXCEPT !.pc = "twice", !.twice = clean_text(norm.once)]
    /\ UNCHANGED <<lbVars, calc, sse, game, hist>>

TextNext == Normalize \/ Renormalize

SpecText == TextInit /\ [][TextNext]_vars

(***************************************************************************)
(* SpecGame: the game flow of one session, main at lines 1010-1017.  Every *)
(* action is one interaction together with the script runs it causes, up   *)
(* to the screen that waits for the next interaction.  `game` holds the    *)
(* session state of lines 681-696 that the flow reads, and for the run in  *)
(* progress the number of save_to_leaderboard calls, of rows they          *)
(* inserted and of re-renders of the completion screen.                    *)
(***************************************************************************)
MaxRuns == 1

MaxRenders == 1

\* completion_time is None
NoTime == 0 - 1

\* lines 681-696
initialize_session_state ==
    [game_started |-> FALSE, game_completed |-> FALSE, current_step |-> 1,
     correct_answers |-> 0, total_answers |-> 0, completion_time |-> NoTime,
     agent_name |-> <<>>, run |-> 0, calls |-> 0, rows |-> 0, renders |-> 0]

GameInit ==
    /\ configured \in BOOLEAN
    /\ leaderboard = <<>>
    /\ db \in (IF configured THEN {EmptyTable, FillerTable} ELSE {EmptyTable})
    /\ today = 0
    /\ last = NoCall
    /\ nSubmits = 0
    /\ game = initialize_session_state
    /\ CalcIdle
    /\ SseIdle
    /\ NormIdle
    /\ HistIdle

\* check_name_exists, lines 741-756; `reachable` says whether
\* execute_query got an answer
check_name_exists(name, reachable) ==
    IF ~configured
    THEN \E i \in DOMAIN leaderboard : lower(leaderboard[i].agent_name) = lower(name)
    ELSE reachable /\ \E r \in DOMAIN db : UPPER(r.AGENT_NAME) = UPPER(name)

\* lines 768-772: the button is enabled for a name that is not taken
BeginMission ==
    /\ ~game.game_started
    /\ game.run < MaxRuns
    /\ \E agent_name \in AgentNames, reachable \in BOOLEAN :
          /\ configured \/ reachable
          /\ ~check_name_exists(agent_name, reachable)
          /\ game' = [game EXCEPT !.agent_name = agent_name, !.game_started = TRUE,
                                  !.calls = 0, !.rows = 0, !.renders = 0]
    /\ UNCHANGED <<lbVars, calc, sse, norm, hist>>

\* lines 907-914, on every run of show_mission_complete: g is the session
\* state the run starts with
show_mission_complete(g, dbres) ==
    IF g.completion_time # NoTime /\ g.completion_time # 0 /\ g.agent_name # <<>>
    THEN /\ save_to_leaderboard(g.agent_name, g.completion_time, g.correct_answers, 2, dbres)
         /\ nSubmits' = nSubmits + 1
    ELSE UNCHANGED <<leaderboard, db, last, nSubmits>>

\* the calls and rows of the run after that script run
after_render(g, dbres) ==
    IF g.completion_time # NoTime /\ g.completion_time # 0 /\ g.agent_name # <<>>
    THEN [g EXCEPT !.calls = @ + 1, !.rows = @ + (IF db_saved(dbres) THEN 1 ELSE 0)]
    ELSE g

\* mutant: the first answer ends the mission
is_last_step_always(current_step) == TRUE

\* line 891, the else branch of current_step < 2
is_last_step(current_step) == ~(current_step < 2)

\* lines 881-902: the session state after an answer that is not blank
answered(g, right, elapsed) ==
    LET counted == [g EXCEPT !.total_answers = @ + 1,
                             !.correct_answers = IF right THEN @ + 1 ELSE @]
    IN  IF is_last_step(g.current_step)
        THEN [counted EXCEPT !.completion_time = elapsed, !.game_completed = TRUE]
        ELSE [counted EXCEPT !.current_step = @ + 1]

\* lines 872-902: "Submit Answer" with an answer that is not blank, right
\* or wrong; after the second one st.rerun() renders the completion screen
SubmitAnswer ==
    /\ game.game_started /\ ~game.game_completed
    /\ \E right \in BOOLEAN, elapsed \in ElapsedTimes, dbres \in DbResults :
          LET g == answered(game, right, elapsed)
          IN  IF g.game_completed
              THEN /\ configured \/ dbres = "failed"
                   /\ show_mission_complete(g, dbres)
                   /\ game' = after_render(g, dbres)
              ELSE /\ dbres = "failed" /\ elapsed = 0
                   /\ game' = g
                   /\ UNCHANGED <<leaderboard, db, last, nSubmits>>
    /\ UNCHANGED <<configured, today, calc, sse, norm, hist>>

\* the script runs again on the completion screen with no button pressed
\* ("Rerun" of the app menu): lines 1010-1017, 778-780, 904-988
Rerender ==
    /\ game.game_started /\ game.game_completed
    /\ game.renders < MaxRenders
    /\ \E dbres \in DbResults :
          /\ configured \/ dbres = "failed"
          /\ show_mission_complete(game, dbres)
          /\ game' = [after_render(game, dbres) EXCEPT !.renders = @ + 1]
    /\ UNCHANGED <<configured, today, calc, sse, norm, hist>>

\* lines 992-1006: the session state after "START NEW MISSION"
reset(g) ==
    [g EXCEPT !.game_started = FALSE, !.game_completed = FALSE, !.current_step = 1,
              !.correct_answers = 0, !.total_answers = 0, !.completion_time = NoTime,
              !.agent_name = <<>>, !.run = @ + 1]

\* "START NEW MISSION": the script run that sees the button pressed first
\* runs lines 907-914 once more, then lines 990-1008 reset the game
StartNewMission ==
    /\ game.game_started /\ game.game_completed
    /\ \E dbres \in DbResults :
          /\ configured \/ dbres = "failed"
          /\ show_mission_complete(game, dbres)
          /\ game' = reset(after_render(game, dbres))
    /\ UNCHANGED <<configured, today, calc, sse, norm, hist>>

GameNext == BeginMission \/ SubmitAnswer \/ Rerender \/ StartNewMission

SpecGame == GameInit /\ [][GameNext]_vars

(***************************************************************************)
(* Leaderboard claims, checked under Spec.                                 *)
(***************************************************************************)
\* a step of Spec that is a call of save_to_leaderboard
IsSubmitStep == nSubmits' = nSubmits + 1

\* the places of the entries of `agent_name` in the list lb
PlacesOf(lb, agent_name) == {i \in DOMAIN lb : same_agent(lb[i].agent_name, agent_name)}

C2_RejectedMutatesNothing ==
    [][(/\ IsSubmitStep
        /\ \E i \in DOMAIN leaderboard :
              /\ same_agent(leaderboard[i].agent_name, last'.agent_name)
              /\ last'.score <= leaderboard[i].score)
       => /\ leaderboard' = leaderboard
          /\ db' = db
          /\ \A reachable \in BOOLEAN :
                show_leaderboard(reachable)' = show_leaderboard(reachable)]_vars

\* every list a read can show: the cache, and what the table's query gives
Views ==
    {leaderboard} \cup show_leaderboard(TRUE) \cup show_leaderboard(FALSE)
        \cup load_leaderboard_from_db(TRUE)

\* C3: no leaderboard view (the local cache, the durable best-per-agent
\* view) holds two entries whose agent names are equal after case folding.
C3_OneEntryPerIdentity ==
    \A v \in Views : \A i, j \in DOMAIN v :
        lower(v[i].agent_name) = lower(v[j].agent_name) => i = j

\* the cache and the durable view both hold an entry of agent "x"/"X",
\* submitted under both spellings
C3_Witness ==
    /\ nSubmits = 2
    /\ \E r \in DOMAIN db : r.AGENT_NAME = NameX
    /\ \E r \in DOMAIN db : r.AGENT_NAME = Namex
    /\ PlacesOf(leaderboard, NameX) # {}
    /\ \E v \in load_leaderboard_from_db(TRUE) : PlacesOf(v, NameX) # {}

\* C4: every ranked view is ordered by score descending, then completion
\* time ascending.
C4_RankedOrder ==
    \A v \in Views : \A i, j \in DOMAIN v :
        i < j => \/ v[i].score > v[j].score
                 \/ v[i].score = v[j].score /\ v[i].completion_time <= v[j].completion_time

\* the agent submitted last was appended and the sort moved it up, above
\* an agent with the same score and a longer time
C4_Witness ==
    /\ last.op = "submit" /\ last.accepted
    /\ \E i, j \in DOMAIN leaderboard :
          /\ i < j
          /\ leaderboard[i].score = leaderboard[j].score
          /\ leaderboard[i].completion_time < leaderboard[j].completion_time
          /\ same_agent(leaderboard[i].agent_name, last.agent_name)

\* C5: the cache never holds more than 10 entries, the main leaderboard
\* and the rank lookup never get more than 10, the sidebar never more than
\* 5, and the table's query with LIMIT n never returns more than n rows.
C5_CapEnforced ==
    /\ Len(leaderboard) <= TopN
    /\ \A v \in Views : Len(v) <= TopN
    /\ \A reachable \in BOOLEAN : \A v \in show_timer_sidebar(reachable) :
          Len(v) <= Min2(SidebarN, TopN)
    /\ \A n \in 0..(TopN + 2) : \A v \in get_leaderboard_from_db(n) : Len(v) <= n

\* eleven agents have submitted (to the cache and to the table) and the
\* views are full
C5_Witness ==
    /\ nSubmits = 2
    /\ Len(leaderboard) = TopN
    /\ last.op = "submit" /\ ~last.existed /\ last.accepted
    /\ PlacesOf(leaderboard, last.agent_name) = {}
    /\ Cardinality({UPPER(r.AGENT_NAME) : r \in todays_rows(db, today)}) > TopN
    /\ \E v \in load_leaderboard_from_db(TRUE) : Len(v) = TopN

\* the entry the last call built
LastEntry ==
    new_entry(last.agent_name, last.completion_time, last.correct_answers,
              last.total_questions, last.score, today)

\* C14: a persistence failure is not fatal.  When the durable write is
\* unavailable, returns failure or raises, the call completes, the table
\* is as before, and the local cache follows the replace-if-better rule:
\* a new agent's entry is inserted and the list cut to the 10 best, an
\* agent's entry is replaced when the new score is strictly higher and
\* the list left alone when it is not; the list stays sorted.
C14_FailureNotFatal ==
    [][(IsSubmitStep /\ last'.dbres # "saved")
       => LET olds == PlacesOf(leaderboard, last'.agent_name)
              all  == Range(leaderboard) \cup {LastEntry'}
          IN  /\ db' = db
              /\ olds = {} =>
                    /\ Len(leaderboard') = Min2(Len(leaderboard) + 1, TopN)
                    /\ Range(leaderboard') \subseteq all
                    /\ \A x \in all \ Range(leaderboard') :
                          \A y \in Range(leaderboard') : ~key_less(x, y)
              /\ \A i \in olds :
                    IF last'.score > leaderboard[i].score
                    THEN /\ Len(leaderboard') = Len(leaderboard)
                         /\ Range(leaderboard') =
                               (Range(leaderboard) \ {leaderboard[i]}) \cup {LastEntry'}
                    ELSE leaderboard' = leaderboard
              /\ \A i, j \in DOMAIN leaderboard' :
                    i < j => ~key_less(leaderboard'[j], leaderboard'[i])]_vars

\* the INSERT raised and the agent's entry was replaced by a better one
C14_Witness ==
    /\ last.op = "submit" /\ last.dbres = "raised"
    /\ last.existed /\ last.accepted /\ last.score > last.previous_best
    /\ \E i \in DOMAIN leaderboard : leaderboard[i] = LastEntry
    /\ db = EmptyTable

\* what the read policy gives: the durable view when it is reachable and
\* has rows, the local cache otherwise
PolicyViews(reachable) ==
    {IF durable # <<>> THEN durable ELSE leaderboard :
        durable \in load_leaderboard_from_db(reachable)}

\* C15 (as claimed): the main leaderboard, the rank lookup and the
\* sidebar leaderboard (its first 5) all read by that policy, and none
\* reports an empty leaderboard while the local cache has entries.
C15_ReadPolicy ==
    \A reachable \in BOOLEAN :
        /\ show_leaderboard(reachable) = PolicyViews(reachable)
        /\ rank_lookup(reachable) = PolicyViews(reachable)
        /\ show_timer_sidebar(reachable) = {Take(v, SidebarN) : v \in PolicyViews(reachable)}
        /\ leaderboard # <<>> =>
              <<>> \notin show_leaderboard(reachable) \cup rank_lookup(reachable)
                            \cup show_timer_sidebar(reachable)

\* C27: read-your-writes.  After a call accepted the run of an agent that
\* had no entry and the entry is among the 10 of the cache, the rank
\* lookup finds the agent, at a position, with the score submitted,
\* whether the table was written or not and whether it can be read or
\* not.
C27_ReadYourWrites ==
    (/\ last.op = "submit" /\ last.accepted /\ ~last.existed
     /\ PlacesOf(leaderboard, last.agent_name) # {})
    => \A reachable \in BOOLEAN : \A lb \in rank_lookup(reachable) :
          \E i \in PlacesOf(lb, last.agent_name) :
             /\ \A j \in PlacesOf(lb, last.agent_name) : i <= j
             /\ lb[i].score = last.score

(***************************************************************************)
(* Cache claims, checked under SpecCache.                                  *)
(***************************************************************************)
\* the highest score ever submitted under a name equal to `name` after
\* case folding
BestEver(name) ==
    MaxOf({p[2] : p \in {q \in hist.submitted : q[1] = lower(name)}})

\* C28: the cache is the top 10 of the best scores per identity: every
\* entry has the highest score ever submitted for its identity, and when
\* the cache is full no identity that is absent ever submitted a score
\* strictly higher than the one of the last entry.
C28_TopOfBestScores ==
    /\ \A i \in DOMAIN leaderboard :
          leaderboard[i].score = BestEver(leaderboard[i].agent_name)
    /\ Len(leaderboard) = TopN =>
          \A p \in hist.submitted :
             (\A i \in DOMAIN leaderboard : lower(leaderboard[i].agent_name) # p[1])
             => p[2] <= leaderboard[TopN].score

\* "X" entered as tenth with 982, was cut off when "Y" entered with
\* 1000, and came back with 1000, which cut off another agent
C28_Witness ==
    /\ nSubmits = 3
    /\ Len(leaderboard) = TopN
    /\ <<lower(NameX), 982>> \in hist.submitted
    /\ \E i \in DOMAIN leaderboard :
          leaderboard[i].agent_name = NameX /\ leaderboard[i].score = 1000
    /\ \E i \in DOMAIN leaderboard : leaderboard[i].agent_name = NameY
    /\ \E p \in hist.submitted :
          \A i \in DOMAIN leaderboard : lower(leaderboard[i].agent_name) # p[1]

\* C29: the cache does not depend on the durable store: two sessions fed
\* the same submissions, whose durable writes succeeded, failed or were
\* not attempted differently, hold the same cache.
C29_CacheIndependentOfStore == leaderboard = hist.other

\* three submissions, of which one was written to the table, changed the
\* cache
C29_Witness ==
    /\ nSubmits = 3
    /\ configured /\ last.dbres = "saved" /\ db # EmptyTable
    /\ leaderboard # FillerEntries
    /\ Len(leaderboard) = TopN

(***************************************************************************)
(* Score claims, checked under SpecScore.                                  *)
(***************************************************************************)
\* the weighted sum accuracy * 700 + speed * 300 as an exact fraction
\* ExactNum / ExactDen, with accuracy = correct / total and
\* speed = clamp((1000 - elapsed) / 1000, 0, 1)
ExactDen == 1000 * calc.total_questions

ExactNum ==
    LET remaining == 1000 - calc.completion_time
        clamped   == IF remaining < 0 THEN 0 ELSE IF remaining > 1000 THEN 1000 ELSE remaining
    IN  700 * 1000 * calc.correct_answers + 300 * calc.total_questions * clamped

\* C6: for total > 0, 0 <= correct <= total and elapsed >= 0 the score is
\* an integer between 0 and 1000; score(total, total, 0) = 1000 and
\* score(0, total, t) = 0 for every t >= 1000.
C6_ScoreBounds ==
    calc.pc = "done" =>
        /\ calc.score \in 0..1000
        /\ (calc.correct_answers = calc.total_questions /\ calc.completion_time = 0)
              => calc.score = 1000
        /\ (calc.correct_answers = 0 /\ calc.completion_time >= 1000) => calc.score = 0

\* all three questions right in no time scores 1000
C6_Witness ==
    /\ calc.pc = "done"
    /\ calc.total_questions = 3 /\ calc.correct_answers = 3 /\ calc.completion_time = 0
    /\ calc.score = 1000

\* C7 (as claimed): the score is the weighted sum rounded to the nearest
\* integer: it is no further than one half from the exact sum.
C7_RoundedToNearest ==
    calc.pc = "done" =>
        /\ 2 * (calc.score * ExactDen - ExactNum) <= ExactDen
        /\ 2 * (ExactNum - calc.score * ExactDen) <= ExactDen

\* C7 (amended): the score is the weighted sum truncated: the largest
\* integer not above the exact sum, or, where the exact sum is itself an
\* integer and the floating-point sum falls just below it, that integer
\* minus one.
C7_Truncated ==
    calc.pc = "done" =>
        /\ calc.score * ExactDen <= ExactNum
        /\ ExactNum <= (calc.score + 1) * ExactDen

\* 2 of 2 in one second: the sum is 999.7 and the score 999
C7_Witness ==
    /\ calc.pc = "done"
    /\ calc.total_questions = 2 /\ calc.correct_answers = 2 /\ calc.completion_time = 1
    /\ calc.score = 999
    /\ 2 * (ExactNum - calc.score * ExactDen) > ExactDen

\* completion times of the run another one is compared with
OtherTimes == {0, 500, 1000}

\* the scores of the other run, each computed once
OtherScore ==
    [t \in OtherTimes, c \in 0..(MaxTotal + 1), q \in 1..(MaxTotal + 1) |->
        IF c <= q THEN total_score(t, c, q) ELSE 0]

\* no run of fewer correct answers, of the same total_questions and of
\* whatever completion time, has a higher score than the run computed
Dominates ==
    \A t \in OtherTimes : \A c \in 0..(calc.correct_answers - 1) :
        OtherScore[t, c, calc.total_questions] <= calc.score

C26_DisjointRanges ==
    (calc.pc = "done" /\ calc.total_questions = 2)
    => /\ calc.correct_answers = 0 => calc.score \in 0..300
       /\ calc.correct_answers = 1 => calc.score \in 350..650
       /\ calc.correct_answers = 2 => calc.score \in 700..1000

\* 1 of 2 in no time reaches the top of its range
C26_Witness ==
    /\ calc.pc = "done"
    /\ calc.total_questions = 2 /\ calc.correct_answers = 1 /\ calc.completion_time = 0
    /\ calc.score = 650

(***************************************************************************)
(* Decoder claims, checked under SpecSSE.                                  *)
(***************************************************************************)
\* the concatenation of the sequences of a sequence
RECURSIVE Flatten(_)
Flatten(seqs) == IF seqs = <<>> THEN <<>> ELSE Flatten(Front(seqs)) \o seqs[Len(seqs)]

\* the content items of a message.delta event whose data is of the
\* documented shape, none for any other event
ContentItems(event) ==
    IF event.event = <<MessageDelta>> /\ event.data # <<>> /\ event.data[1].t = "dict"
    THEN LET delta == py_get(event.data[1], "delta", Dict(<<>>))
         IN  IF delta.t = "dict" /\ py_get(delta, "content", List(<<>>)).t = "list"
             THEN py_get(delta, "content", List(<<>>)).items
             ELSE <<>>
    ELSE <<>>

IsJsonResult(result) ==
    /\ result.t = "dict"
    /\ is_str(py_get(result, "type", None), Json)
    /\ py_get(result, "json", Dict(<<>>)).t = "dict"

\* the JSON records of a tool_results content item, in order
RecordsOfItem(item) ==
    IF item.t = "dict" /\ is_str(py_get(item, "type", None), ToolResults)
    THEN LET tool_results == py_get(item, "tool_results", Dict(<<>>))
             results == IF tool_results.t = "dict"
                        THEN py_get(tool_results, "content", List(<<>>)) ELSE List(<<>>)
             records == IF results.t = "list" THEN SelectSeq(results.items, IsJsonResult)
                        ELSE <<>>
         IN  [i \in DOMAIN records |-> py_get(records[i], "json", Dict(<<>>))]
    ELSE <<>>

\* the tool_results JSON records of the events, in order
JsonRecords(events) ==
    Flatten([e \in DOMAIN events |->
                LET items == ContentItems(events[e])
                IN  Flatten([i \in DOMAIN items |-> RecordsOfItem(items[i])])])

\* the last sql of the records that is not empty, '' if there is none
LastNonEmptySql(records) ==
    LET places == {i \in DOMAIN records :
                      ~is_str(py_get(records[i], "sql", Str(<<>>)), <<>>)}
    IN  IF places = {} THEN Str(<<>>) ELSE py_get(records[MaxOf(places)], "sql", Str(<<>>))

\* the searchResults items of the records, in order, as citations
SearchResultsOf(record) ==
    LET search_results == py_get(record, "searchResults", List(<<>>))
        items == IF search_results.t = "list"
                 THEN SelectSeq(search_results.items, LAMBDA x : x.t = "dict") ELSE <<>>
    IN  [i \in DOMAIN items |-> citation(items[i])]

AllSearchResults(events) ==
    LET records == JsonRecords(events)
    IN  Flatten([r \in DOMAIN records |-> SearchResultsOf(records[r])])

IsPrefix(s, t) == Len(s) <= Len(t) /\ \A i \in DOMAIN s : s[i] = t[i]

\* C8 (as claimed): flush on truncation.  When the stream ends while
\* current_event holds a name or a payload without a closing blank line,
\* that event becomes the last of the events and the returned text, sql
\* and citations are those of all events received, the partial one
\* included: nothing received is lost.
C8_FlushOnTruncation ==
    [][(sse.pc = "reading" /\ sse'.pc = "done" /\ nonempty(sse.current_event))
       => LET all == Append(sse.events, sse.current_event)
          IN  /\ sse'.events = all
              /\ sse'.text = decoded(all).text
              /\ sse'.sql = decoded(all).sql
              /\ sse'.citations = decoded(all).citations]_vars

\* C9 (as claimed): the returned query is the last non-empty sql of the
\* contributing tool_results JSON records; a later record without sql, or
\* with an empty one, does not erase it.
C9_LastNonEmptySql ==
    (sse.pc = "done" /\ ~sse.error) => sse.sql = LastNonEmptySql(JsonRecords(sse.events))

\* C10: the citations are the searchResults items walked, in the order
\* met across events and records, duplicates kept: all of them when the
\* walk ran to its end, and those before the exception when it did not.
C10_CitationOrder ==
    sse.pc = "done" =>
        /\ IsPrefix(sse.citations, AllSearchResults(sse.events))
        /\ ~sse.error => sse.citations = AllSearchResults(sse.events)

\* two events, three records, four search results, the first of them
\* three times
C10_Witness ==
    /\ sse.pc = "done" /\ ~sse.error
    /\ Len(sse.events) = 2
    /\ Len(JsonRecords(<<sse.events[1]>>)) = 2
    /\ Len(JsonRecords(<<sse.events[2]>>)) = 1
    /\ Len(sse.citations) = 4
    /\ sse.citations[1] = sse.citations[3] /\ sse.citations[3] = sse.citations[4]
    /\ sse.citations[1] # sse.citations[2]

\* the raw text fragments of a content item, in order: the text of a
\* text item, the text of each JSON record of a tool_results item
RawTextsOfItem(item) ==
    IF item.t = "dict" /\ is_str(py_get(item, "type", None), Text)
    THEN LET raw_text == py_get(item, "text", Str(<<>>))
         IN  IF raw_text.t = "str" THEN <<raw_text.chars>> ELSE <<>>
    ELSE LET records == RecordsOfItem(item)
             texts == [i \in DOMAIN records |-> py_get(records[i], "text", Str(<<>>))]
         IN  [i \in DOMAIN texts |-> IF texts[i].t = "str" THEN texts[i].chars ELSE <<>>]

\* the raw text fragments of the events, joined in the order met
RawText(events) ==
    Flatten(Flatten([e \in DOMAIN events |->
                LET items == ContentItems(events[e])
                IN  Flatten([i \in DOMAIN items |-> RawTextsOfItem(items[i])])]))

\* C12 (as claimed): the returned text is clean_text applied once to the
\* raw fragments joined in the order met, so that the whitespace where two
\* fragments meet is kept as one space.
C12_NormalizedOnce ==
    (sse.pc = "done" /\ ~sse.error) => sse.text = clean_text(RawText(sse.events))

\* the places of the message.delta events
DeltaPlaces(events) == {e \in DOMAIN events : events[e].event = <<MessageDelta>>}

\* the events hold one message.delta event, its content is one
\* tool_results item with one result, a JSON record {text, sql,
\* searchResults}
IsSingleRecord(events) ==
    /\ Cardinality(DeltaPlaces(events)) = 1
    /\ \A e \in DeltaPlaces(events) :
          LET items == ContentItems(events[e])
          IN  /\ Len(items) = 1
              /\ Len(RecordsOfItem(items[1])) = 1
              /\ Len(py_get(py_get(items[1], "tool_results", Dict(<<>>)),
                            "content", List(<<>>)).items) = 1
              /\ \A key \in {"text", "sql", "searchResults"} :
                    has_key(RecordsOfItem(items[1])[1], key)

\* C13 (as claimed): such events decode to the normalised text of the
\* record, its sql and one citation per search result, in order.
C13_SingleRecordDecode ==
    (sse.pc = "done" /\ ~sse.error /\ IsSingleRecord(sse.events))
    => LET record == JsonRecords(sse.events)[1]
       IN  /\ sse.text = clean_text(py_get(record, "text", Str(<<>>)).chars)
           /\ sse.sql = py_get(record, "sql", Str(<<>>))
           /\ sse.citations = SearchResultsOf(record)

\* the first event at which the walk of the events raises, 0 if none
FailingEvent(events) ==
    LET failing == {k \in DOMAIN events : walk_events(NoResult, SubSeq(events, 1, k), 1).raised}
    IN  IF failing = {} THEN 0 ELSE CHOOSE k \in failing : \A j \in failing : k <= j

\* the text fragments of the events as they are added: each normalised
CleanFragments(events) ==
    LET raw == Flatten([e \in DOMAIN events |->
                   LET items == ContentItems(events[e])
                   IN  Flatten([i \in DOMAIN items |-> RawTextsOfItem(items[i])])])
    IN  [i \in DOMAIN raw |-> clean_text(raw[i])]

\* the sql after each record, as line 377 assigns it; '' before the first
SqlAfter(records, m) == IF m = 0 THEN Str(<<>>) ELSE py_get(records[m], "sql", Str(<<>>))

\* C16: when the walk raises at event k, the function still returns, with
\* the error reported, and what it returns is what was accumulated
\* before the failure: the text is the normalised sum of the first
\* fragments, the citations are the first search results, the sql is
\* that of a record walked; each covers at least everything in the
\* events before k, and nothing of the events after k.
C16_PartialResultOnException ==
    (sse.pc = "done" /\ sse.walked /\ FailingEvent(sse.events) # 0)
    => LET k       == FailingEvent(sse.events)
           before  == SubSeq(sse.events, 1, k - 1)
           upto    == SubSeq(sse.events, 1, k)
       IN  /\ sse.error
           /\ \E n \in Len(CleanFragments(before))..Len(CleanFragments(upto)) :
                 sse.text = clean_text(Flatten(SubSeq(CleanFragments(upto), 1, n)))
           /\ IsPrefix(AllSearchResults(before), sse.citations)
           /\ IsPrefix(sse.citations, AllSearchResults(upto))
           /\ \E m \in Len(JsonRecords(before))..Len(JsonRecords(upto)) :
                 sse.sql = SqlAfter(JsonRecords(upto), m)

\* the first event gave sql and a citation, the second raised in the
\* middle of its search results
C16_Witness ==
    /\ sse.pc = "done" /\ sse.walked /\ sse.error
    /\ FailingEvent(sse.events) = 2
    /\ Len(sse.citations) = 2
    /\ sse.sql = Str(Sql2)
    /\ Len(AllSearchResults(<<sse.events[1]>>)) = 1

\* a step of SpecSSE that is one turn of the loop, and the line it took
IsLineStep == sse.pc = "reading" /\ sse'.pc = "reading" /\ sse'.n = sse.n + 1

IsMalformedData(line) ==
    line.kind = "data" /\ ~line.json /\ strip(line.rest) # <<>> /\ strip(line.rest) # Done

\* current_event holds a payload that is text
HoldsOpaque(event) == event.data # <<>> /\ event.data[1].t = "str"

\* C17: a data line that is no JSON becomes the (normalised) text payload
\* of the event in progress, which keeps its name; nothing is raised and
\* the loop goes on: every later line is taken as any other, the events
\* emitted so far stay in their order, and the event with the text
\* payload is emitted at the next blank or event line.
C17_MalformedDataIsOpaque ==
    [][IsLineStep
       => LET line == Lines[sse'.line]
          IN  /\ IsMalformedData(line) =>
                    /\ sse'.current_event.data = <<Str(clean_text(strip(line.rest)))>>
                    /\ sse'.current_event.event = sse.current_event.event
                    /\ sse'.events = sse.events
              /\ ~sse'.error
              /\ IsPrefix(sse.events, sse'.events)
              /\ (HoldsOpaque(sse.current_event) /\ line.kind \in {"event", "blank"}) =>
                    sse'.events = Append(sse.events, sse.current_event)]_vars

\* an event with a text payload was emitted, and the event after it was
\* emitted and walked
C17_Witness ==
    /\ sse.pc = "done" /\ sse.walked /\ ~sse.error
    /\ Len(sse.events) = 2
    /\ HoldsOpaque(sse.events[1])
    /\ sse.events[2].data = <<OneRecord>>
    /\ Len(sse.citations) = 1

\* C21: an event line met while the accumulator is not empty first emits
\* the accumulated record, as the last of the records, and starts a new
\* one of its own name without payload; a blank line emits a non-empty
\* accumulator and leaves an empty one.  Records so keep their order of
\* arrival, and two events with no blank line between them are two
\* records.
C21_FlushOnEventAndBlank ==
    [][IsLineStep
       => LET line == Lines[sse'.line]
              emitted == /\ Len(sse'.events) = Len(sse.events) + 1
                         /\ IsPrefix(sse.events, sse'.events)
                         /\ sse'.events[Len(sse'.events)] = sse.current_event
          IN  /\ line.kind = "event" =>
                    /\ IF sse.current_event # NoEvent THEN emitted
                       ELSE sse'.events = sse.events
                    /\ sse'.current_event.event = <<strip(line.rest)>>
                    /\ sse'.current_event.data = <<>>
              /\ line.kind = "blank" =>
                    /\ IF sse.current_event # NoEvent THEN emitted
                       ELSE sse'.events = sse.events
                    /\ sse'.current_event = NoEvent]_vars

\* two events, each with a payload and no blank line between them, gave
\* two records that kept their names and payloads
C21_Witness ==
    /\ sse.pc = "done" /\ sse.n = 4
    /\ Len(sse.events) = 2
    /\ sse.events[1].event = <<MessageDelta>> /\ sse.events[1].data = <<TwoRecords>>
    /\ sse.events[2].event = <<<<"d","o","n","e">>>> /\ sse.events[2].data = <<OneRecord>>

\* the records named 'message.delta'
DeltaRecords(events) == SelectSeq(events, LAMBDA e : e.event = <<MessageDelta>>)

\* C22: only the records named 'message.delta' contribute: the result is
\* the one of the event sequence without the records of another name or
\* of no name.
C22_OnlyDeltaContributes ==
    (sse.pc = "done" /\ sse.walked)
    => LET result == decoded(DeltaRecords(sse.events))
       IN  /\ sse.text = result.text
           /\ sse.sql = result.sql
           /\ sse.citations = result.citations
           /\ sse.error = result.error

\* a record of no name, made of a data line that came before any event
\* line, has a payload that would contribute; the delta record after it
\* is the only one that did
C22_Witness ==
    /\ sse.pc = "done" /\ sse.walked /\ ~sse.error
    /\ Len(sse.events) = 2
    /\ sse.events[1].event = <<>> /\ sse.events[1].data = <<TwoRecords>>
    /\ sse.events[2].event = <<MessageDelta>> /\ sse.events[2].data = <<OneRecord>>
    /\ Len(sse.citations) = 1 /\ sse.sql = Str(Sql2)

\* a data line that holds the terminator token, or nothing
IsTerminator(line) ==
    line.kind = "data" /\ ~line.json /\ strip(line.rest) \in {<<>>, Done}

\* C24: a data line that holds '[DONE]', or nothing, leaves the name and
\* the payload of the accumulator as they are and emits no record; the
\* token is the payload of no record.
C24_TerminatorIsNoOp ==
    [][IsLineStep
       => /\ IsTerminator(Lines[sse'.line]) =>
                /\ sse'.current_event = sse.current_event
                /\ sse'.events = sse.events
          /\ sse'.current_event.data \notin {<<Str(Done)>>, <<Str(<<>>)>>}
          /\ \A i \in DOMAIN sse'.events :
                sse'.events[i].data \notin {<<Str(Done)>>, <<Str(<<>>)>>}]_vars

\* the token came after the payload of a delta record in progress, and
\* that record was emitted with its payload at the end of the stream
C24_Witness ==
    /\ sse.pc = "done" /\ sse.n = 3 /\ sse.walked
    /\ IsTerminator(Lines[sse.line]) /\ strip(Lines[sse.line].rest) = Done
    /\ sse.events = <<[event |-> <<MessageDelta>>, data |-> <<OneRecord>>]>>
    /\ Len(sse.citations) = 1

\* a data line that holds a payload: something other than the terminator
\* token
IsPayloadLine(line) == line.kind = "data" /\ ~IsTerminator(line)

\* what the walk of lines 353-381 is given when the stream ends in the
\* state at hand
EmittedAtEnd ==
    IF sse.current_event = NoEvent THEN sse.events
    ELSE Append(sse.events, sse.current_event)

\* C31: of several data lines of one event only the last that holds a
\* payload counts: a data line with a payload makes its own payload the
\* only one of the event in progress, whatever payload the event held,
\* and changes neither its name nor the records emitted so far; the
\* payload it replaced is then in no record that can still be emitted,
\* and a data line without payload after it leaves the payload in place.
C31_LastDataLineWins ==
    [][IsLineStep
       => LET line == Lines[sse'.line]
              payload == IF line.json THEN line.value
                         ELSE Str(clean_text(strip(line.rest)))
          IN  /\ IsPayloadLine(line) =>
                    /\ sse'.current_event.data = <<payload>>
                    /\ sse'.current_event.event = sse.current_event.event
                    /\ sse'.events = sse.events
                    /\ sse'.overwrote = (sse.current_event.data # <<>>)
              /\ (line.kind = "data" /\ ~IsPayloadLine(line)) =>
                    sse'.current_event.data = sse.current_event.data
              /\ (sse'.overwrote /\ sse.current_event.data # <<payload>>) =>
                    \A i \in (Len(sse.events) + 1)..Len(EmittedAtEnd') :
                        EmittedAtEnd'[i].data # sse.current_event.data]_vars

\* a delta event took a payload and then the payload of OneRecord; the
\* stream ended, and the one record emitted holds OneRecord alone: the
\* result is that of OneRecord
C31_Witness ==
    /\ sse.pc = "done" /\ sse.walked /\ ~sse.error
    /\ sse.n = 3 /\ sse.overwrote
    /\ Lines[sse.line] = DataJson(OneRecord)
    /\ sse.events = <<[event |-> <<MessageDelta>>, data |-> <<OneRecord>>]>>
    /\ sse.sql = Str(Sql2)
    /\ Len(sse.citations) = 1

\* C18: whatever the events hold, the walk raises nothing, and what it
\* returns is what the records of the documented shapes contribute:
\* events of other names, payloads that are no objects (text, null),
\* missing keys and items of unknown type tags add nothing and change
\* nothing of the rest.
C18_UnknownIsSilentNoOp ==
    (sse.pc = "done" /\ sse.walked)
    => /\ ~sse.error
       /\ sse.text = clean_text(Flatten(CleanFragments(sse.events)))
       /\ sse.citations = AllSearchResults(sse.events)
       /\ sse.sql = SqlAfter(JsonRecords(sse.events), Len(JsonRecords(sse.events)))

(***************************************************************************)
(* Game flow claims, checked under SpecGame.                               *)
(***************************************************************************)

\* C19: a completed run calls save_to_leaderboard at most once, and so
\* inserts at most one row, however often the completion screen is
\* rendered again and whichever button is pressed after it.
C19_SingleSubmissionPerRun == game.calls <= 1 /\ game.rows <= 1

\* C20: every call of save_to_leaderboard of the game flow has
\* total_questions = 2, 0 <= correct_answers <= total_questions and
\* completion_time >= 0; correct_answers never exceeds the number of
\* answers given, and the game is completed only after exactly two.
C20_SubmitPrecondition ==
    /\ last.op = "submit" =>
          /\ last.total_questions = 2
          /\ 0 <= last.correct_answers /\ last.correct_answers <= last.total_questions
          /\ last.completion_time >= 0
    /\ game.correct_answers <= game.total_answers
    /\ game.game_completed => game.total_answers = 2

\* a mission with one right answer of two was completed and submitted
C20_Witness ==
    /\ game.game_completed /\ game.calls >= 1
    /\ game.correct_answers = 1 /\ game.total_answers = 2
    /\ last.op = "submit" /\ last.correct_answers = 1 /\ last.completion_time = 60
    /\ last.agent_name = game.agent_name

(***************************************************************************)
(* Direct format claims, checked under SpecDirect.                         *)
(***************************************************************************)

\* the content items of a response that has a 'message' and no 'choices'
MessageOnlyItems(response) ==
    IF has_key(response, "message") /\ ~has_key(response, "choices")
    THEN py_get(py_get(response, "message", Dict(<<>>)), "content", List(<<>>)).items
    ELSE <<>>

IsTextItem(item) == item.t = "dict" /\ is_str(py_get(item, "type", None), Text)

\* the text items before the first item that is no dict
TextItemsRead(items) ==
    LET bad == {i \in DOMAIN items : items[i].t # "dict"}
        read == IF bad = {} THEN items
                ELSE SubSeq(items, 1, (CHOOSE i \in bad : \A j \in bad : i <= j) - 1)
    IN  SelectSeq(read, IsTextItem)

\* C23: of a response with a 'message' key and no 'choices' key only the
\* content items of type 'text' contribute: the text is theirs, the
\* tool_results items are passed over, the sql and the citations are
\* empty.
C23_DirectMessageTextOnly ==
    (sse.pc = "done" /\ has_key(sse.response, "message") /\ ~has_key(sse.response, "choices"))
    => LET read == TextItemsRead(MessageOnlyItems(sse.response))
       IN  /\ sse.sql = Str(<<>>)
           /\ sse.citations = <<>>
           /\ sse.text = clean_text(Flatten([i \in DOMAIN read |->
                               clean_text(py_get(read[i], "text", Str(<<>>)).chars)]))

\* a message whose content is a text item, a tool result with sql and a
\* search result, and another text item
C23_Witness ==
    /\ sse.pc = "done" /\ ~sse.error
    /\ MessageOnlyItems(sse.response) = <<DirectItems[1], DirectItems[3], DirectItems[2]>>
    /\ sse.text = <<"o","k","I"," ","a","m">>

\* C30: every completed run is submitted: once the game is completed
\* under an agent name, the completion screen has called
\* save_to_leaderboard with the run's name, completion time and correct
\* answers, whatever the completion time, 0 seconds included.
C30_CompletedIsSubmitted ==
    (game.game_completed /\ game.agent_name # <<>>)
    => /\ game.calls >= 1
       /\ last.op = "submit"
       /\ last.agent_name = game.agent_name
       /\ last.completion_time = game.completion_time
       /\ last.correct_answers = game.correct_answers
       /\ last.total_questions = 2

(***************************************************************************)
(* Text claims, checked under SpecText.                                    *)
(***************************************************************************)
\* C11 (as claimed): clean_text is idempotent: applied to its own output
\* it returns that output.
C11_Idempotent == norm.pc = "twice" => norm.twice = norm.once

=============================================================================
